---- MODULE Spec2Model ----
(***************************************************************************)
(* A model of cobrautil.go: the flag/environment resolver                  *)
(* (SyncViperPreRunE), the hook composer (CommandStack), the logging and   *)
(* tracing configurators (ZeroLogPreRunE, OpenTelemetryPreRunE) and the    *)
(* gRPC and HTTP server bootstrap functions.                               *)
(*                                                                         *)
(* One behaviour is one command invocation: the flags are registered and   *)
(* the command line is parsed (Init), the composed pre-run hook runs hook  *)
(* by hook, and, when it succeeded, the command body constructs the two    *)
(* servers and calls their blocking listen functions.                      *)
(***************************************************************************)
EXTENDS Integers, Sequences, FiniteSets, TLC

VARIABLES
    use,            \* cmd.Use of the command being run
    flags,          \* cmd.Flags(): flag name -> [typ, value, changed]
    env,            \* the process environment: variable name -> text
    isTTY,          \* isatty.IsTerminal(os.Stdout.Fd())
    prefixes,       \* the flagPrefix argument the program passes per family
    globalLevel,    \* zerolog's global level
    loggerOut,      \* the writer of the global log.Logger
    tracerProvider, \* otel's global tracer provider
    propagator,     \* otel's global text map propagator
    viperPrefix,    \* the environment prefix of the global viper
    emitted,        \* the log events written so far
    hooks,          \* the cmdfns given to CommandStack
    idx,            \* the loop position of the composed hook
    ranLog,         \* the hooks called, in call order: index and returned error
    touched,        \* the caller-supplied hooks whose side effect was applied
    stackResult,    \* whether the composed hook returned, and the error ("" is nil)
    pc,             \* "prerun", "body", "aborted" or "panic"
    grpc,           \* the gRPC server and its listen call
    http,           \* the HTTP server and its listen call
    reads,          \* function name -> the flag names it looked up
    last            \* the last hook call: arguments, result, state before

vars == <<use, flags, env, isTTY, prefixes, globalLevel, loggerOut,
          tracerProvider, propagator, viperPrefix, emitted, hooks, idx, ranLog, touched,
          stackResult, pc, grpc, http, reads, last>>

-----------------------------------------------------------------------------
(* Bounds of the model.                                                    *)

MaxHooks == 3    \* longest hook list given to CommandStack
MaxArgs == 1     \* most flags set explicitly on the command line
MaxEnv == 2      \* most environment variables set

-----------------------------------------------------------------------------
(* Strings: package strings, strconv, time, os.                            *)

LowerAlpha == "abcdefghijklmnopqrstuvwxyz"
UpperAlpha == "ABCDEFGHIJKLMNOPQRSTUVWXYZ"
Digits == "0123456789"

CharAt(s, i) == SubSeq(s, i, i)

\* the table that maps the i-th character of from to the i-th character of to
CharTable(from, to) ==
    [c \in {CharAt(from, i) : i \in 1..Len(from)} |->
        CharAt(to, CHOOSE i \in 1..Len(from) : CharAt(from, i) = c)]

UpperOf == CharTable(LowerAlpha, UpperAlpha)
LowerOf == CharTable(UpperAlpha, LowerAlpha)
DigitOf == [c \in {CharAt(Digits, i) : i \in 1..10} |->
               (CHOOSE i \in 1..10 : CharAt(Digits, i) = c) - 1]

RECURSIVE MapChars(_, _, _)
\* s from its i-th character on, each character replaced as table says
MapChars(s, table, i) ==
    IF i > Len(s) THEN ""
    ELSE LET c == CharAt(s, i)
         IN (IF c \in DOMAIN table THEN table[c] ELSE c) \o MapChars(s, table, i + 1)

ToUpper(s) == MapChars(s, UpperOf, 1)
ToLower(s) == MapChars(s, LowerOf, 1)

\* strings.ReplaceAll for a one-character old and new
ReplaceAll(s, old, new) == MapChars(s, old :> new, 1)

\* strconv.ParseBool
ParseBool(s) ==
    IF s \in {"1", "t", "T", "TRUE", "true", "True"} THEN [ok |-> TRUE, text |-> "true"]
    ELSE IF s \in {"0", "f", "F", "FALSE", "false", "False"} THEN [ok |-> TRUE, text |-> "false"]
    ELSE [ok |-> FALSE, text |-> ""]

RECURSIVE ParseUint(_, _)
\* the decimal value of s[1..n], or -1 when a character is not a digit
ParseUint(s, n) ==
    IF n = 0 THEN 0
    ELSE LET c == CharAt(s, n)
             r == ParseUint(s, n - 1)
         IN IF c \notin DOMAIN DigitOf \/ r < 0 THEN -1 ELSE 10 * r + DigitOf[c]

UnitSeconds(u) == CASE u = "s" -> 1 [] u = "m" -> 60 [] u = "h" -> 3600 [] OTHER -> 0

\* time.Duration.String for whole seconds below one hour
FormatDuration(secs) ==
    IF secs = 0 THEN "0s"
    ELSE IF secs < 60 THEN ToString(secs) \o "s"
    ELSE ToString(secs \div 60) \o "m" \o ToString(secs % 60) \o "s"

\* time.ParseDuration for texts of one decimal number and one unit
ParseDuration(s) ==
    IF Len(s) < 2 THEN [ok |-> FALSE, text |-> ""]
    ELSE LET n == ParseUint(s, Len(s) - 1)
             u == UnitSeconds(CharAt(s, Len(s)))
         IN IF n < 0 \/ u = 0 THEN [ok |-> FALSE, text |-> ""]
            ELSE [ok |-> TRUE, text |-> FormatDuration(n * u)]

\* os.LookupEnv
Getenv(name) == IF name \in DOMAIN env THEN env[name] ELSE ""

\* os.ExpandEnv for a text that is either one $NAME reference or has none
ExpandEnv(s) ==
    IF Len(s) > 0 /\ CharAt(s, 1) = "$" THEN Getenv(SubSeq(s, 2, Len(s))) ELSE s

\* stringz.DefaultEmpty
DefaultEmpty(val, fallback) == IF val = "" THEN fallback ELSE val

-----------------------------------------------------------------------------
(* pflag: flag sets.                                                       *)

NewFlag(typ, def) == [typ |-> typ, value |-> def, changed |-> FALSE]

\* pflag.Value.Set of the flag's type: the text parsed, in its String() form
Coerce(typ, text) ==
    CASE typ = "bool" -> ParseBool(text)
      [] typ = "duration" -> ParseDuration(text)
      [] OTHER -> [ok |-> TRUE, text |-> text]

\* (*pflag.FlagSet).Set: the flag set afterwards and whether Set failed
FlagSetSet(fs, name, text) ==
    IF name \notin DOMAIN fs THEN [fs |-> fs, err |-> TRUE]
    ELSE LET c == Coerce(fs[name].typ, text)
         IN IF ~c.ok THEN [fs |-> fs, err |-> TRUE]
            ELSE [fs |-> [fs EXCEPT ![name] = [@ EXCEPT !.value = c.text, !.changed = TRUE]],
                  err |-> FALSE]

\* the union of two flag sets with disjoint names
Merge(f, g) == [n \in DOMAIN f \cup DOMAIN g |-> IF n \in DOMAIN f THEN f[n] ELSE g[n]]

Has(name) == name \in DOMAIN flags

MustGetString(name) == flags[name].value
MustGetBool(name) == flags[name].value = "true"
MustGetDuration(name) == flags[name].value
MustGetStringExpanded(name) == ExpandEnv(MustGetString(name))

-----------------------------------------------------------------------------
(* Flag registration.                                                      *)

RegisterZeroLogFlags(flagPrefix) ==
    LET p == DefaultEmpty(flagPrefix, "log")
    IN (p \o "-level" :> NewFlag("string", "info")) @@
       (p \o "-format" :> NewFlag("string", "auto"))

RegisterOpenTelemetryFlags(flagPrefix, serviceName) ==
    LET p == DefaultEmpty(flagPrefix, "otel")
    IN (p \o "-provider" :> NewFlag("string", "none")) @@
       (p \o "-jaeger-endpoint" :> NewFlag("string", "http://jaeger:14268/api/traces")) @@
       (p \o "-jaeger-service-name" :> NewFlag("string", serviceName))

RegisterGrpcServerFlags(flagPrefix, defaultAddr, defaultEnabled) ==
    LET p == DefaultEmpty(flagPrefix, "grpc")
    IN (p \o "-addr" :> NewFlag("string", DefaultEmpty(defaultAddr, ":50051"))) @@
       (p \o "-tls-cert-path" :> NewFlag("string", "")) @@
       (p \o "-tls-key-path" :> NewFlag("string", "")) @@
       (p \o "-max-conn-age" :> NewFlag("duration", "30s")) @@
       (p \o "-enabled" :> NewFlag("bool", IF defaultEnabled THEN "true" ELSE "false"))

RegisterHttpServerFlags(flagPrefix, defaultAddr, defaultEnabled) ==
    LET p == DefaultEmpty(flagPrefix, "http")
    IN (p \o "-addr" :> NewFlag("string", DefaultEmpty(defaultAddr, ":8443"))) @@
       (p \o "-tls-cert-path" :> NewFlag("string", "")) @@
       (p \o "-tls-key-path" :> NewFlag("string", "")) @@
       (p \o "-enabled" :> NewFlag("bool", IF defaultEnabled THEN "true" ELSE "false"))

-----------------------------------------------------------------------------
(* The pre-run hooks.  A hook is evaluated on the current state and yields *)
(* the part of the state it may change, the error it returns ("" is nil)   *)
(* and whether it panicked on a flag that was never defined.               *)

Cur ==
    [flags |-> flags, globalLevel |-> globalLevel, loggerOut |-> loggerOut,
     tracerProvider |-> tracerProvider, propagator |-> propagator,
     viperPrefix |-> viperPrefix, emitted |-> emitted, touched |-> touched,
     err |-> "", panic |-> FALSE]

IsBuiltinCommand == use \in {"help [command]", "completion [command]"}

\* zerolog.Level
LevelNum(l) ==
    CASE l = "trace" -> -1 [] l = "debug" -> 0 [] l = "info" -> 1 [] l = "warn" -> 2
      [] l = "error" -> 3 [] l = "fatal" -> 4 [] l = "panic" -> 5

Levels == {"trace", "debug", "info", "warn", "error", "fatal", "panic"}

\* the events written so far after an event at level lvl under global level gl
Emit(events, msg, lvl, gl) ==
    IF LevelNum(lvl) >= LevelNum(gl) THEN events \cup {msg} ELSE events

\* the prefix as the closure of SyncViperPreRunE keeps it
EnvPrefix(prefix) == ReplaceAll(ToUpper(prefix), "-", "_")

\* EnvKey without the uppercasing of the flag name
EnvKey_NoUpper(envPrefix, name) == envPrefix \o "_" \o ReplaceAll(name, "-", "_")

\* the environment variable bound to flag name, for the closure's prefix
EnvKey(envPrefix, name) == envPrefix \o "_" \o ToUpper(ReplaceAll(name, "-", "_"))

\* (*viper.Viper).IsSet of a key bound to environment variable key
ViperIsSet(key) == key \in DOMAIN env /\ env[key] # ""

\* VisitFlag without the test of f.Changed
VisitFlag_IgnoreChanged(name, key) ==
    IF ViperIsSet(key)
    THEN FlagSetSet(flags, name, Getenv(key)).fs[name]
    ELSE flags[name]

\* the body of the VisitAll callback: flag name afterwards, key its variable
VisitFlag(name, key) ==
    IF ~flags[name].changed /\ ViperIsSet(key)
    THEN FlagSetSet(flags, name, Getenv(key)).fs[name]
    ELSE flags[name]

\* cmd.Flags().VisitAll of the callback, for the closure's prefix
VisitAll(envPrefix) == [n \in DOMAIN flags |-> VisitFlag(n, EnvKey(envPrefix, n))]

SyncViperPreRunE(prefix) ==
    IF IsBuiltinCommand THEN Cur
    ELSE [Cur EXCEPT !.viperPrefix = EnvPrefix(prefix),
                     !.flags = VisitAll(EnvPrefix(prefix))]

\* the writer of log.Logger after the format option was applied
FormatOut(format) ==
    IF format = "human" \/ (format = "auto" /\ isTTY) THEN "console" ELSE loggerOut

ZeroLogPreRunE(flagPrefix, prerunLevel) ==
    LET p == DefaultEmpty(flagPrefix, "log")
    IN IF IsBuiltinCommand THEN Cur
       ELSE IF ~Has(p \o "-format") THEN [Cur EXCEPT !.panic = TRUE]
       ELSE LET out == FormatOut(MustGetString(p \o "-format"))
            IN IF ~Has(p \o "-level") THEN [Cur EXCEPT !.loggerOut = out, !.panic = TRUE]
               ELSE LET level == ToLower(MustGetString(p \o "-level"))
                    IN IF level \in Levels
                       THEN [Cur EXCEPT !.loggerOut = out, !.globalLevel = level,
                                        !.emitted = Emit(@, "set log level", prerunLevel, level)]
                       ELSE [Cur EXCEPT !.loggerOut = out,
                                        !.err = "unknown log level: " \o level]

initJaegerTracer(exporterOk) ==
    IF ~exporterOk THEN [Cur EXCEPT !.err = "jaeger: invalid collector endpoint"]
    ELSE [Cur EXCEPT !.tracerProvider = "jaeger", !.propagator = "tracecontext"]

OpenTelemetryPreRunE(flagPrefix, prerunLevel, exporterOk) ==
    LET p == DefaultEmpty(flagPrefix, "otel")
    IN IF IsBuiltinCommand THEN Cur
       ELSE IF ~Has(p \o "-provider") THEN [Cur EXCEPT !.panic = TRUE]
       ELSE LET provider == ToLower(MustGetString(p \o "-provider"))
            IN CASE provider = "none" ->
                      [Cur EXCEPT !.emitted = Emit(@, "set tracing provider", prerunLevel, globalLevel)]
                 [] provider = "jaeger" ->
                      IF Has(p \o "-jaeger-endpoint") /\ Has(p \o "-jaeger-service-name")
                      THEN initJaegerTracer(exporterOk)
                      ELSE [Cur EXCEPT !.panic = TRUE]
                 [] OTHER -> [Cur EXCEPT !.err = "unknown tracing provider: " \o provider]

\* a hook of the caller: it applies its side effect and then succeeds or fails
UserHook(i, outcome) ==
    [Cur EXCEPT !.touched = @ \cup {i},
                !.err = IF outcome = "fail" THEN "hook " \o ToString(i) \o " failed" ELSE ""]

\* the call cmdfn(cmd, args) of the i-th hook
CallHook(i, exporterOk) ==
    LET h == hooks[i]
    IN CASE h.kind = "sync" -> SyncViperPreRunE(h.arg)
         [] h.kind = "zerolog" -> ZeroLogPreRunE(h.arg, h.lvl)
         [] h.kind = "otel" -> OpenTelemetryPreRunE(h.arg, h.lvl, exporterOk)
         [] h.kind = "user" -> UserHook(i, h.arg)

\* StackAfter with a loop that goes on after a failed hook
StackAfter_Continue(i, r) ==
    IF r.panic THEN [pc |-> "panic", idx |-> i, result |-> stackResult]
    ELSE [pc |-> "prerun", idx |-> i + 1, result |-> stackResult]

\* what the loop of the composed hook does with the result r of hook i
StackAfter(i, r) ==
    IF r.panic THEN [pc |-> "panic", idx |-> i, result |-> stackResult]
    ELSE IF r.err # "" THEN [pc |-> "aborted", idx |-> i, result |-> [done |-> TRUE, err |-> r.err]]
    ELSE [pc |-> "prerun", idx |-> i + 1, result |-> stackResult]

\* one iteration of the loop in the hook CommandStack returns
CommandStack ==
    /\ pc = "prerun"
    /\ idx <= Len(hooks)
    /\ \E exporterOk \in BOOLEAN :
       \E r \in {CallHook(idx, exporterOk)} :
       \E s \in {StackAfter(idx, r)} :
            /\ flags' = r.flags
            /\ globalLevel' = r.globalLevel
            /\ loggerOut' = r.loggerOut
            /\ tracerProvider' = r.tracerProvider
            /\ propagator' = r.propagator
            /\ viperPrefix' = r.viperPrefix
            /\ emitted' = r.emitted
            /\ touched' = r.touched
            /\ last' = [i |-> idx, hook |-> hooks[idx], err |-> r.err, panic |-> r.panic,
                        flags |-> flags, globalLevel |-> globalLevel, loggerOut |-> loggerOut,
                        tracerProvider |-> tracerProvider, propagator |-> propagator]
            /\ ranLog' = Append(ranLog, [i |-> idx, err |-> r.err])
            /\ pc' = s.pc
            /\ idx' = s.idx
            /\ stackResult' = s.result
    /\ UNCHANGED <<use, env, isTTY, prefixes, hooks, grpc, http, reads>>

\* the loop is over: the composed hook returns nil and the command body runs
CommandStackReturn ==
    /\ pc = "prerun"
    /\ idx > Len(hooks)
    /\ stackResult' = [done |-> TRUE, err |-> ""]
    /\ pc' = "body"
    /\ UNCHANGED <<use, flags, env, isTTY, prefixes, globalLevel, loggerOut,
                   tracerProvider, propagator, viperPrefix, emitted, hooks, idx, ranLog,
                   touched, grpc, http, reads, last>>

-----------------------------------------------------------------------------
(* The command body: server construction and the blocking listen calls.    *)

NoServer ==
    [state |-> "Unconfigured", tls |-> FALSE, addr |-> "", maxConnAge |-> "",
     err |-> "", bound |-> FALSE, signal |-> ""]

Panic(names) == ~(names \subseteq DOMAIN flags)

\* GrpcServerSwitch with a first case that takes one empty path for plaintext
GrpcServerSwitch_Tolerant(flagPrefix, certPath, keyPath, loadOk) ==
    CASE certPath = "" \/ keyPath = "" -> [srv |-> TRUE, tls |-> FALSE, err |-> ""]
      [] OTHER ->
           IF loadOk THEN [srv |-> TRUE, tls |-> TRUE, err |-> ""]
           ELSE [srv |-> FALSE, tls |-> FALSE, err |-> "tls: failed to load key pair"]

\* the switch of GrpcServerFromFlags: is there a server, with TLS, which error
GrpcServerSwitch(flagPrefix, certPath, keyPath, loadOk) ==
    CASE certPath = "" /\ keyPath = "" -> [srv |-> TRUE, tls |-> FALSE, err |-> ""]
      [] certPath # "" /\ keyPath # "" ->
           IF loadOk THEN [srv |-> TRUE, tls |-> TRUE, err |-> ""]
           ELSE [srv |-> FALSE, tls |-> FALSE, err |-> "tls: failed to load key pair"]
      [] OTHER ->
           [srv |-> FALSE, tls |-> FALSE,
            err |-> "failed to start gRPC server: must provide both --" \o flagPrefix
                    \o "-tls-cert-path and --" \o flagPrefix \o "-tls-key-path"]

GrpcServerFromFlags ==
    /\ pc = "body"
    /\ grpc.state = "Unconfigured"
    /\ LET p == DefaultEmpty(prefixes.grpc, "grpc")
           names == {p \o "-max-conn-age", p \o "-tls-cert-path", p \o "-tls-key-path"}
       IN /\ reads' = [reads EXCEPT !["GrpcServerFromFlags"] = names]
          /\ IF Panic(names)
             THEN /\ pc' = "panic"
                  /\ UNCHANGED <<grpc, emitted>>
             ELSE \E loadOk \in BOOLEAN :
                    LET certPath == MustGetStringExpanded(p \o "-tls-cert-path")
                        keyPath == MustGetStringExpanded(p \o "-tls-key-path")
                        r == GrpcServerSwitch(p, certPath, keyPath, loadOk)
                    IN /\ grpc' = [grpc EXCEPT
                                     !.state = IF r.srv THEN "Constructed" ELSE "ConstructFailed",
                                     !.tls = r.tls,
                                     !.maxConnAge = MustGetDuration(p \o "-max-conn-age"),
                                     !.err = r.err]
                       /\ emitted' = IF r.srv /\ ~r.tls
                                     THEN Emit(emitted, "grpc server serving plaintext", "warn", globalLevel)
                                     ELSE emitted
                       /\ pc' = pc
    /\ UNCHANGED <<use, flags, env, isTTY, prefixes, globalLevel, loggerOut,
                   tracerProvider, propagator, viperPrefix, hooks, idx, ranLog, touched,
                   stackResult, http, last>>

\* GrpcListenFromFlags up to the point where srv.Serve blocks
GrpcListenFromFlags ==
    /\ pc = "body"
    /\ grpc.state = "Constructed"
    /\ LET p == DefaultEmpty(prefixes.grpc, "grpc")
       IN IF Panic({p \o "-enabled"})
          THEN /\ pc' = "panic"
               /\ reads' = [reads EXCEPT !["GrpcListenFromFlags"] = {p \o "-enabled"}]
               /\ UNCHANGED grpc
          ELSE IF ~MustGetBool(p \o "-enabled")
          THEN /\ grpc' = [grpc EXCEPT !.state = "DisabledIdle", !.err = ""]
               /\ reads' = [reads EXCEPT !["GrpcListenFromFlags"] = {p \o "-enabled"}]
               /\ pc' = pc
          ELSE IF Panic({p \o "-addr"})
          THEN /\ pc' = "panic"
               /\ reads' = [reads EXCEPT !["GrpcListenFromFlags"] = {p \o "-enabled", p \o "-addr"}]
               /\ UNCHANGED grpc
          ELSE /\ reads' = [reads EXCEPT !["GrpcListenFromFlags"] = {p \o "-enabled", p \o "-addr"}]
               /\ pc' = pc
               /\ \E bindOk \in BOOLEAN :
                    grpc' = IF bindOk
                            THEN [grpc EXCEPT !.state = "Listening", !.bound = TRUE,
                                              !.addr = MustGetStringExpanded(p \o "-addr")]
                            ELSE [grpc EXCEPT !.state = "Stopped",
                                              !.addr = MustGetStringExpanded(p \o "-addr"),
                                              !.err = "failed to listen on addr for gRPC server: bind"]
    /\ UNCHANGED <<use, flags, env, isTTY, prefixes, globalLevel, loggerOut,
                   tracerProvider, propagator, viperPrefix, emitted, hooks, idx, ranLog,
                   touched, stackResult, http, last>>

\* what srv.Serve can return: nil after Stop or GracefulStop while serving,
\* grpc.ErrServerStopped when the server was stopped before Serve was called,
\* or the error of the listener's Accept
GrpcServeOutcomes == {"nil", "grpc: the server has been stopped", "accept: listener failed"}

\* the error GrpcListenFromFlags returns for what srv.Serve returned
GrpcServeResult(served) ==
    IF served # "nil" THEN "failed to serve gRPC: " \o served ELSE ""

\* srv.Serve returns and GrpcListenFromFlags with it
GrpcServeReturns ==
    /\ pc = "body"
    /\ grpc.state = "Listening"
    /\ \E served \in GrpcServeOutcomes :
         grpc' = [grpc EXCEPT !.state = "Stopped", !.signal = served,
                              !.err = GrpcServeResult(served)]
    /\ UNCHANGED <<use, flags, env, isTTY, prefixes, globalLevel, loggerOut,
                   tracerProvider, propagator, viperPrefix, emitted, hooks, idx, ranLog,
                   touched, stackResult, pc, http, reads, last>>

HttpServerFromFlags ==
    /\ pc = "body"
    /\ http.state = "Unconfigured"
    /\ LET p == DefaultEmpty(prefixes.http, "http")
       IN /\ reads' = [reads EXCEPT !["HttpServerFromFlags"] = {p \o "-addr"}]
          /\ IF Panic({p \o "-addr"})
             THEN /\ pc' = "panic"
                  /\ UNCHANGED http
             ELSE /\ http' = [http EXCEPT !.state = "Constructed",
                                          !.addr = MustGetStringExpanded(p \o "-addr")]
                  /\ pc' = pc
    /\ UNCHANGED <<use, flags, env, isTTY, prefixes, globalLevel, loggerOut,
                   tracerProvider, propagator, viperPrefix, emitted, hooks, idx, ranLog,
                   touched, stackResult, grpc, last>>

\* what srv.ListenAndServe and srv.ListenAndServeTLS can do before they serve:
\* bind the socket, fail to bind it, or return http.ErrServerClosed at once
\* because the server was shut down before
HttpListenOutcomes == {"bound", "bind failed", "http: Server closed"}

\* what serving can end with: http.ErrServerClosed, or any other error
HttpServeOutcomes == {"http: Server closed", "accept: listener failed"}

\* the error HttpListenFromFlags returns for what ListenAndServe(TLS) returned
HttpServeResult(tls, served) ==
    IF served # "http: Server closed"
    THEN (IF tls THEN "failed while serving https: " ELSE "failed while serving http: ") \o served
    ELSE ""

\* the switch of HttpListenFromFlags: does it serve, with TLS, which error
HttpListenSwitch(flagPrefix, certPath, keyPath) ==
    CASE certPath = "" /\ keyPath = "" -> [serve |-> TRUE, tls |-> FALSE, err |-> ""]
      [] certPath # "" /\ keyPath # "" -> [serve |-> TRUE, tls |-> TRUE, err |-> ""]
      [] OTHER ->
           [serve |-> FALSE, tls |-> FALSE,
            err |-> "failed to start http server: must provide both --" \o flagPrefix
                    \o "-tls-cert-path and --" \o flagPrefix \o "-tls-key-path"]

\* HttpListenFromFlags up to the point where the server serves
HttpListenFromFlags ==
    /\ pc = "body"
    /\ http.state = "Constructed"
    /\ LET p == prefixes.http
           tlsNames == {p \o "-tls-cert-path", p \o "-tls-key-path"}
       IN IF Panic({p \o "-enabled"})
          THEN /\ pc' = "panic"
               /\ reads' = [reads EXCEPT !["HttpListenFromFlags"] = {p \o "-enabled"}]
               /\ UNCHANGED <<http, emitted>>
          ELSE IF ~MustGetBool(p \o "-enabled")
          THEN /\ http' = [http EXCEPT !.state = "DisabledIdle", !.err = ""]
               /\ reads' = [reads EXCEPT !["HttpListenFromFlags"] = {p \o "-enabled"}]
               /\ pc' = pc
               /\ UNCHANGED emitted
          ELSE IF Panic(tlsNames)
          THEN /\ pc' = "panic"
               /\ reads' = [reads EXCEPT !["HttpListenFromFlags"] = {p \o "-enabled"} \cup tlsNames]
               /\ UNCHANGED <<http, emitted>>
          ELSE LET certPath == MustGetStringExpanded(p \o "-tls-cert-path")
                   keyPath == MustGetStringExpanded(p \o "-tls-key-path")
                   r == HttpListenSwitch(p, certPath, keyPath)
               IN /\ reads' = [reads EXCEPT !["HttpListenFromFlags"] = {p \o "-enabled"} \cup tlsNames]
                  /\ pc' = pc
                  /\ emitted' = IF r.serve /\ ~r.tls
                                THEN Emit(emitted, "http server serving plaintext", "warn", globalLevel)
                                ELSE emitted
                  /\ IF ~r.serve
                     THEN http' = [http EXCEPT !.state = "Stopped", !.err = r.err]
                     ELSE \E o \in HttpListenOutcomes :
                            http' = IF o = "bound"
                                    THEN [http EXCEPT !.state = "Listening", !.tls = r.tls,
                                                      !.bound = TRUE]
                                    ELSE [http EXCEPT !.state = "Stopped", !.tls = r.tls,
                                                      !.signal = o,
                                                      !.err = HttpServeResult(r.tls, o)]
    /\ UNCHANGED <<use, flags, env, isTTY, prefixes, globalLevel, loggerOut,
                   tracerProvider, propagator, viperPrefix, hooks, idx, ranLog, touched,
                   stackResult, grpc, last>>

\* ListenAndServe or ListenAndServeTLS returns and HttpListenFromFlags with it
HttpServeReturns ==
    /\ pc = "body"
    /\ http.state = "Listening"
    /\ \E served \in HttpServeOutcomes :
         http' = [http EXCEPT !.state = "Stopped", !.signal = served,
                              !.err = HttpServeResult(http.tls, served)]
    /\ UNCHANGED <<use, flags, env, isTTY, prefixes, globalLevel, loggerOut,
                   tracerProvider, propagator, viperPrefix, emitted, hooks, idx, ranLog,
                   touched, stackResult, pc, grpc, reads, last>>

-----------------------------------------------------------------------------
(* The invocations explored: what the program registers and composes, the  *)
(* command line and the environment.                                       *)

\* the prefixes spelled out
Explicit == [log |-> "log", otel |-> "otel", grpc |-> "grpc", http |-> "http"]

\* the prefixes left empty
Defaulted == [log |-> "", otel |-> "", grpc |-> "", http |-> ""]

\* the flagPrefix arguments of a program: all left empty, or all spelled out
PrefixChoices == {Defaulted, Explicit}

\* the prefixes given to SyncViperPreRunE
SyncPrefixes == {"log", "my-app"}

Arg(name, text) == [name |-> name, text |-> text]

\* flags a command line may set for the configurators
ArgChoices ==
    { Arg("log-level", "DEBUG"), Arg("log-level", "bogus"),
      Arg("log-format", "human"), Arg("log-format", "xml"),
      Arg("otel-provider", "jaeger"), Arg("otel-provider", "zipkin"),
      Arg("grpc-enabled", "T") }

\* environment variables a process may run with, named after prefix my-app
EnvChoices ==
    { Arg("MY_APP_LOG_LEVEL", "bogus"), Arg("MY_APP_LOG_LEVEL", ""),
      Arg("MY_APP_OTEL_PROVIDER", "Jaeger"),
      Arg("MY_APP_GRPC_MAX_CONN_AGE", "soon"), Arg("MY_APP_GRPC_MAX_CONN_AGE", "90s"),
      Arg("MY_APP_GRPC_ENABLED", "maybe"),
      Arg("MY_APP_HTTP_ENABLED", "1") }

\* the log level on the command line and in variables named after prefix log
LogArgChoices == { a \in ArgChoices : a.name = "log-level" }

LogEnvChoices ==
    { Arg("LOG_LEVEL", "error"), Arg("LOG_LOG_LEVEL", "warn"), Arg("MY_APP_LOG_LEVEL", "bogus") }

\* the flags and variables that decide how the servers are built and served
ServerArgChoices ==
    { Arg("grpc-tls-cert-path", "/etc/tls/cert.pem"),
      Arg("grpc-tls-key-path", "$KEY_FILE"),
      Arg("http-enabled", "false"),
      Arg("http-tls-cert-path", "/etc/tls/cert.pem") }

ServerEnvChoices ==
    { Arg("MY_APP_GRPC_TLS_KEY_PATH", "/etc/tls/key.pem"),
      Arg("MY_APP_HTTP_TLS_KEY_PATH", "/etc/tls/key.pem"),
      Arg("KEY_FILE", "/etc/tls/key.pem") }

\* the subsets of choices of at most n elements that name nothing twice
Picks(choices, n) ==
    { A \in SUBSET choices :
        /\ Cardinality(A) <= n
        /\ \A a, b \in A : a.name = b.name => a = b }

AsFunction(A) == [n \in {a.name : a \in A} |-> (CHOOSE a \in A : a.name = n).text]

BoundedSeq(S, n) == UNION {[1..k -> S] : k \in 0..n}

Hook(kind, arg) == [kind |-> kind, arg |-> arg, lvl |-> "info"]

\* the hooks a program may compose
HookChoices(pre) ==
    {Hook("sync", p) : p \in SyncPrefixes} \cup
    {Hook("zerolog", pre.log), Hook("otel", pre.otel), Hook("user", "ok"), Hook("user", "fail")}

\* the usual chain: resolve the flags, then configure logging, then tracing
UsualHooks(pre, syncPrefix) ==
    <<Hook("sync", syncPrefix), Hook("zerolog", pre.log), Hook("otel", pre.otel)>>

\* every flag the command registers
Registered(pre, defaultEnabled) ==
    Merge(Merge(RegisterZeroLogFlags(pre.log),
                RegisterOpenTelemetryFlags(pre.otel, "example.com/app")),
          Merge(RegisterGrpcServerFlags(pre.grpc, "", defaultEnabled),
                RegisterHttpServerFlags(pre.http, "", defaultEnabled)))

RECURSIVE ParseArgs(_, _)
\* the flag set after the command line was parsed
ParseArgs(fs, args) ==
    IF args = {} THEN fs
    ELSE LET a == CHOOSE x \in args : TRUE
         IN ParseArgs(FlagSetSet(fs, a.name, a.text).fs, args \ {a})

Input(pre, en, u, tty, hs, args, ev) ==
    [prefixes |-> pre, defaultEnabled |-> en, use |-> u, isTTY |-> tty,
     hooks |-> hs, args |-> args, env |-> ev]

\* any hook list, on a bare command line
ChainInputs ==
    { Input(Explicit, FALSE, "serve", FALSE, hs, {}, ev) :
        hs \in BoundedSeq(HookChoices(Explicit), MaxHooks),
        ev \in Picks({Arg("MY_APP_LOG_LEVEL", "bogus")}, MaxEnv) }

\* the usual chain, on any command line and environment; the servers are
\* disabled unless the command line or the environment enables them
ResolveInputs ==
    { Input(Defaulted, FALSE, "serve", tty, UsualHooks(Defaulted, "my-app"), args, ev) :
        tty \in BOOLEAN,
        args \in Picks(ArgChoices, MaxArgs), ev \in Picks(EnvChoices, MaxEnv) }

\* the usual chain with the resolver under the prefix of the logging flags
NamespaceInputs ==
    { Input(Defaulted, FALSE, "serve", FALSE, UsualHooks(Defaulted, "log"), args, ev) :
        args \in Picks(LogArgChoices, MaxArgs), ev \in Picks(LogEnvChoices, MaxEnv) }

\* servers enabled by default, behind the resolver alone
ServeInputs ==
    { Input(pre, TRUE, "serve", FALSE, <<Hook("sync", "my-app")>>, args, ev) :
        pre \in PrefixChoices,
        args \in Picks(ServerArgChoices, MaxArgs), ev \in Picks(ServerEnvChoices, MaxEnv) }

\* the usual chain on a builtin command
BuiltinInputs ==
    { Input(pre, FALSE, "help [command]", TRUE, UsualHooks(pre, "my-app"), args, ev) :
        pre \in PrefixChoices,
        args \in Picks(ArgChoices, MaxArgs),
        ev \in Picks({Arg("MY_APP_LOG_LEVEL", "bogus"), Arg("MY_APP_GRPC_ENABLED", "maybe")}, MaxEnv) }

Inputs ==
    ChainInputs \cup ResolveInputs \cup NamespaceInputs \cup ServeInputs \cup BuiltinInputs

Init ==
    \E in \in Inputs :
        /\ use = in.use
        /\ flags = ParseArgs(Registered(in.prefixes, in.defaultEnabled), in.args)
        /\ env = AsFunction(in.env)
        /\ isTTY = in.isTTY
        /\ prefixes = in.prefixes
        /\ hooks = in.hooks
        /\ globalLevel = "debug"
        /\ loggerOut = "json"
        /\ tracerProvider = "noop"
        /\ propagator = "noop"
        /\ viperPrefix = ""
        /\ emitted = {}
        /\ idx = 1
        /\ ranLog = <<>>
        /\ touched = {}
        /\ stackResult = [done |-> FALSE, err |-> ""]
        /\ pc = "prerun"
        /\ grpc = NoServer
        /\ http = NoServer
        /\ reads = [f \in {"GrpcServerFromFlags", "GrpcListenFromFlags",
                           "HttpServerFromFlags", "HttpListenFromFlags"} |-> {}]
        /\ last = [i |-> 0]

Next ==
    \/ CommandStack
    \/ CommandStackReturn
    \/ GrpcServerFromFlags
    \/ GrpcListenFromFlags
    \/ GrpcServeReturns
    \/ HttpServerFromFlags
    \/ HttpListenFromFlags
    \/ HttpServeReturns

Spec == Init /\ [][Next]_vars

-----------------------------------------------------------------------------
(* Properties.                                                             *)

\* the last hook called was of this kind and the command body has not begun
AfterHook(kind) ==
    last.i > 0 /\ last.hook.kind = kind /\ ~last.panic /\ pc \in {"prerun", "aborted"}

\* the variable name the resolver is documented to bind: prefix and flag name
\* joined by an underscore, the whole uppercased with hyphens as underscores
OverrideName(prefix, name) == ToUpper(ReplaceAll(prefix \o "_" \o name, "-", "_"))

HasPrefix(s, p) == Len(s) >= Len(p) /\ SubSeq(s, 1, Len(p)) = p

\* C1: the resolver leaves an option as it was unless the option was not set
\* explicitly and its override variable is present; an explicitly set option
\* keeps its value even with the variable present, an option whose variable
\* is unset keeps its default.
C1_ResolverFrame ==
    AfterHook("sync") =>
        \A n \in DOMAIN flags :
            flags[n] # last.flags[n] =>
                (~last.flags[n].changed /\ OverrideName(last.hook.arg, n) \in DOMAIN env)

\* an explicitly set option met a present override variable and kept its value,
\* while another option was overridden
C1_Witness ==
    /\ AfterHook("sync")
    /\ \E n \in DOMAIN flags :
         /\ last.flags[n].changed
         /\ ViperIsSet(OverrideName(last.hook.arg, n))
         /\ flags[n].value # env[OverrideName(last.hook.arg, n)]
    /\ \E n \in DOMAIN flags : flags[n] # last.flags[n]

\* the text of variable key coerced to the type of flag n, when that is possible
Override(n, key) == Coerce(last.flags[n].typ, Getenv(key))

\* C2 as stated: for a flag <prefix>-<name>, the resolver invoked with that
\* prefix consults exactly the variable <PREFIX>_<NAME>, e.g. LOG_LEVEL for
\* flag log-level under prefix log.
C2_Original ==
    AfterHook("sync") =>
        \A n \in DOMAIN flags :
            HasPrefix(n, last.hook.arg \o "-") =>
                \A key \in {ToUpper(ReplaceAll(n, "-", "_"))} :
                   /\ (~last.flags[n].changed /\ ViperIsSet(key) /\ Override(n, key).ok)
                        => flags[n].value = Override(n, key).text
                   /\ flags[n] # last.flags[n] => ViperIsSet(key)

\* C2 amended: the resolver invoked with prefix P consults, for every flag,
\* exactly the variable made of P and the flag's full name (its own namespace
\* prefix included), uppercased with hyphens as underscores, e.g.
\* LOG_LOG_LEVEL for flag log-level under prefix log.
C2_OverrideName ==
    AfterHook("sync") /\ ~IsBuiltinCommand =>
        \A n \in DOMAIN flags :
            \A key \in {OverrideName(last.hook.arg, n)} :
               /\ (~last.flags[n].changed /\ ViperIsSet(key) /\ Override(n, key).ok)
                    => flags[n].value = Override(n, key).text /\ flags[n].changed
               /\ flags[n] # last.flags[n] => ViperIsSet(key)

\* flag log-level was overridden by LOG_LOG_LEVEL under prefix log
C2_Witness ==
    /\ AfterHook("sync")
    /\ last.hook.arg = "log"
    /\ "LOG_LOG_LEVEL" \in DOMAIN env
    /\ "log-level" \in DOMAIN flags
    /\ ~last.flags["log-level"].changed
    /\ flags["log-level"].value = env["LOG_LOG_LEVEL"]
    /\ flags["log-level"].value # last.flags["log-level"].value

\* the resolver met an option that was not set explicitly and whose variable
\* holds text that cannot be coerced to the option's type
CoercionFailure ==
    /\ AfterHook("sync")
    /\ ~IsBuiltinCommand
    /\ \E n \in DOMAIN flags :
         \E key \in {OverrideName(last.hook.arg, n)} :
            ~last.flags[n].changed /\ ViperIsSet(key) /\ ~Override(n, key).ok

\* C3: on a coercion failure the resolver hook returns an error, and in a
\* composed chain that error aborts the chain so that no later hook runs.
C3_CoercionError ==
    CoercionFailure =>
        /\ last.err # ""
        /\ stackResult.done /\ stackResult.err = last.err
        /\ pc = "aborted"

\* C4: the composed hook calls its hooks in the given order, each once, stops
\* at the first failure and returns exactly that hook's error; it returns nil
\* only after every hook ran and succeeded; the side effects of the hooks
\* that ran stay applied.
C4_FailFast ==
    LET n == Len(ranLog)
    IN /\ n <= Len(hooks)
       /\ \A j \in 1..n : ranLog[j].i = j /\ (j < n => ranLog[j].err = "")
       /\ (n > 0 /\ ranLog[n].err # "") =>
              stackResult = [done |-> TRUE, err |-> ranLog[n].err] /\ pc = "aborted"
       /\ (stackResult.done /\ stackResult.err # "") => (n > 0 /\ ranLog[n].err = stackResult.err)
       /\ (stackResult.done /\ stackResult.err = "") =>
              (n = Len(hooks) /\ \A j \in 1..n : ranLog[j].err = "")
       /\ touched = {j \in 1..n : hooks[j].kind = "user"}

\* the second of three hooks failed after the first had applied its effect
C4_Witness ==
    /\ Len(hooks) = 3
    /\ Len(ranLog) = 2
    /\ hooks[1].kind = "user"
    /\ 1 \in touched
    /\ stackResult.done
    /\ stackResult.err = ranLog[2].err
    /\ ranLog[2].err # ""
    /\ pc = "aborted"

\* the flag families the program registered
GrpcFamily == DefaultEmpty(prefixes.grpc, "grpc")
HttpFamily == DefaultEmpty(prefixes.http, "http")

\* exactly one of the two TLS paths of the family is non-empty, as resolved
PartialPair(family) ==
    (MustGetStringExpanded(family \o "-tls-cert-path") = "")
        # (MustGetStringExpanded(family \o "-tls-key-path") = "")

PairingError(what, flagPrefix) ==
    "failed to start " \o what \o ": must provide both --" \o flagPrefix
        \o "-tls-cert-path and --" \o flagPrefix \o "-tls-key-path"

Called(function) == reads[function] # {}

C6_DisabledNeverBinds ==
    /\ grpc.bound => MustGetBool(GrpcFamily \o "-enabled")
    /\ http.bound => MustGetBool(HttpFamily \o "-enabled")
    /\ (Called("GrpcListenFromFlags") /\ ~MustGetBool(GrpcFamily \o "-enabled")) =>
           (grpc.state = "DisabledIdle" /\ grpc.err = "" /\ ~grpc.bound)
    /\ (Called("HttpListenFromFlags") /\ ~MustGetBool(HttpFamily \o "-enabled")) =>
           (http.state = "DisabledIdle" /\ http.err = "" /\ ~http.bound)

LogFlag(name) == MustGetString(DefaultEmpty(last.hook.arg, "log") \o name)

LoggingStateKept == globalLevel = last.globalLevel /\ loggerOut = last.loggerOut

\* C7: with a level outside the seven recognised ones the logging hook fails
\* and the global level and the global logger's writer are what they were
\* before the hook ran, whatever the format option is.
C7_BadLevelKeepsState ==
    (AfterHook("zerolog") /\ ~IsBuiltinCommand /\ ToLower(LogFlag("-level")) \notin Levels) =>
        (last.err # "" /\ LoggingStateKept)

\* C8: a log level, a log format or a tracing provider outside its accepted
\* set makes the configurator hook return an error and leaves the global
\* state as it was.
C8_EnumRejected ==
    /\ (AfterHook("zerolog") /\ ~IsBuiltinCommand
            /\ (ToLower(LogFlag("-level")) \notin Levels
                  \/ LogFlag("-format") \notin {"auto", "human", "json"})) =>
           (last.err # "" /\ LoggingStateKept)
    /\ (AfterHook("otel") /\ ~IsBuiltinCommand
            /\ ToLower(MustGetString(DefaultEmpty(last.hook.arg, "otel") \o "-provider"))
                  \notin {"none", "jaeger"}) =>
           (last.err # "" /\ tracerProvider = last.tracerProvider
               /\ propagator = last.propagator)

\* what a server's serve call returns when it ends because the server was
\* shut down
CleanShutdown == {"nil", "grpc: the server has been stopped", "http: Server closed"}

ServedTo(srv, wrap) ==
    (srv.state = "Stopped" /\ srv.bound) =>
        IF srv.signal \in CleanShutdown THEN srv.err = ""
        ELSE HasPrefix(srv.err, wrap) /\ srv.err # wrap

\* C9: once listening, the listen call returns nil when serving ends with the
\* server's clean-shutdown signal and a wrapped error for every other error,
\* in the gRPC variant as in the HTTP one.
C9_CleanShutdownIsSuccess ==
    /\ ServedTo(grpc, "failed to serve gRPC: ")
    /\ ServedTo(http, "failed while serving http")

\* C10: with any prefix argument, the empty one included, the construction
\* and the listen function of a variant look up only flags that the matching
\* Register function created for that prefix.
C10_SameFamily ==
    /\ reads["GrpcServerFromFlags"] \cup reads["GrpcListenFromFlags"]
           \subseteq DOMAIN RegisterGrpcServerFlags(prefixes.grpc, "", FALSE)
    /\ reads["HttpServerFromFlags"] \cup reads["HttpListenFromFlags"]
           \subseteq DOMAIN RegisterHttpServerFlags(prefixes.http, "", FALSE)

====
